---- MODULE Spec2Model ----
(***************************************************************************)
(* The gnapsis benchmark harness: bench/run.py (run phase), bench/judge.py *)
(* (judge phase) and bench/analyze.py (aggregate phase), which share one   *)
(* directory of per-cell result files (the Result Store).                  *)
(*                                                                         *)
(* Text is a sequence of snippets (TLA+ strings): a letter, a blank, or a  *)
(* run of characters that is kept whole.  JSON values are tagged records.  *)
(***************************************************************************)
EXTENDS Integers, Sequences, FiniteSets, TLC

VARIABLES
    store,        \* bench/results/raw/<task>_<condition>_run<n>.json: key -> document
    combined,     \* bench/results/raw/all_results.json
    pc,           \* which program is running: "idle", "run" or "judge"
    status,       \* how the last program ended: "none", "ok", "exit1", "raised"
    args,         \* parsed command line of the running program
    completed,    \* run_benchmark: the counter completed
    all_results,  \* run_benchmark: the list all_results
    results,      \* judge main: the list results loaded at start
    idx,          \* judge main: the loop index i (0-based, next entry to handle)
    trace,        \* external effects of the running program, in order
    last,         \* the latest external call of the running program, kept when
                  \* the program raises
    faults,       \* external responses so far that were not the well-formed one
    report,       \* analyze main: the report of the last aggregate phase
    table,        \* print_comparison: the rows of the comparison it printed
    call,         \* a function of the programs called on its own: its arguments
    ret           \* what that call returned

vars == <<store, combined, pc, status, args, completed, all_results, results,
          idx, trace, last, faults, report, table, call, ret>>

----------------------------------------------------------------------------
(* Bounds of the model *)

\* largest --runs value tried
MaxRuns == 2
\* responses of the external command, per behaviour, that deviate from the
\* well-formed one
MaxFaults == 1
\* longest answer text handed to count_keyword_hits on its own
MaxTextLen == 4
\* longest keyword list handed to count_keyword_hits on its own
MaxKeywords == 2

----------------------------------------------------------------------------
(* JSON values and the Python operations the programs apply to them *)

Null == [t |-> "null"]
Num(n) == [t |-> "num", n |-> n]
Str(s) == [t |-> "str", s |-> s]
Bool(b) == [t |-> "bool", b |-> b]
List(l) == [t |-> "list", l |-> l]
Obj(o) == [t |-> "obj", o |-> o]

NoFile == [t |-> "nofile"]
DecodeError == [t |-> "JSONDecodeError"]
EmptyMap == [k \in {} |-> Null]

IsObj(v) == v.t = "obj"
IsStr(v) == v.t = "str"
IsNum(v) == v.t = "num"

\* d.get(k, default) on a dict
Get(d, k, default) == IF k \in DOMAIN d THEN d[k] ELSE default

\* d[k] = v on a dict
SetField(d, k, v) == (k :> v) @@ d

\* bool(v): Python truthiness of a decoded JSON value
Truthy(v) ==
    CASE v.t = "null" -> FALSE
      [] v.t = "num"  -> v.n # 0
      [] v.t = "str"  -> v.s # <<>>
      [] v.t = "bool" -> v.b
      [] v.t = "list" -> v.l # <<>>
      [] v.t = "obj"  -> DOMAIN v.o # {}
      [] OTHER        -> TRUE

\* a + b raises TypeError
AddRaises(a, b) ==
    ~ \/ a.t \in {"num", "bool"} /\ b.t \in {"num", "bool"}
      \/ a.t = "str" /\ b.t = "str"
      \/ a.t = "list" /\ b.t = "list"

\* format(v, ".4f") raises
FormatFloatRaises(v) == v.t \notin {"num", "bool"}

\* s[:n]
Slice(s, n) == SubSeq(s, 1, IF Len(s) < n THEN Len(s) ELSE n)

Whitespace == {" ", "\n"}

RECURSIVE LStrip(_)
LStrip(s) == IF s # <<>> /\ Head(s) \in Whitespace THEN LStrip(Tail(s)) ELSE s

RECURSIVE RStrip(_)
RStrip(s) ==
    IF s # <<>> /\ s[Len(s)] \in Whitespace
    THEN RStrip(SubSeq(s, 1, Len(s) - 1))
    ELSE s

\* s.strip()
Strip(s) == RStrip(LStrip(s))

----------------------------------------------------------------------------
(* The documents the external command prints in this model, and what       *)
(* json.loads reads from each                                              *)

\* the answer of a well-formed agent envelope: "re QU"
AnswerText == <<"r", "e", " ", "Q", "U">>

FullUsage ==
    Obj([input_tokens |-> Num(10), output_tokens |-> Num(5),
         cache_read_input_tokens |-> Num(2),
         cache_creation_input_tokens |-> Num(1)])

FullEnvelope ==
    Obj([result |-> Str(AnswerText), usage |-> FullUsage,
         num_turns |-> Num(3), duration_ms |-> Num(40),
         duration_api_ms |-> Num(30), total_cost_usd |-> Num(1),
         is_error |-> Bool(FALSE), session_id |-> Str(<<"s1">>)])

NullUsage ==
    Obj([input_tokens |-> Null, output_tokens |-> Null,
         cache_read_input_tokens |-> Null,
         cache_creation_input_tokens |-> Null])

NullEnvelope ==
    Obj([result |-> Null, usage |-> NullUsage, num_turns |-> Null,
         duration_ms |-> Null, duration_api_ms |-> Null,
         total_cost_usd |-> Null, is_error |-> Null, session_id |-> Null])

\* result texts of the grader; "<fence>" stands for a markdown code fence
ScoreDoc7 == "{\"score\": 7, \"reasoning\": \"good\"}"
ScoreDoc15 == "{\"score\": 15, \"reasoning\": \"great\"}"
NestedDoc8 == "{\"evaluation\": {\"score\": 8}}"
TextScore7 == <<ScoreDoc7>>
TextFenced7 == <<"<fence>", "json", "\n", ScoreDoc7, "\n", "<fence>">>
TextScore15 == <<ScoreDoc15>>
TextScoreNull == <<"{\"score\": null}">>
TextScoreStr == <<"{\"score\": \"high\"}">>
TextNoScore == <<"{}">>
TextBareNumber == <<"5">>
TextList == <<"[]">>
TextProse == <<"Looks", " ", "fine">>
TextPattern8 == <<"I give ", "\"score\": 8", " overall">>
TextPattern12 == <<"\"score\": 12">>
TextNested8 == <<NestedDoc8>>

\* the envelope documents of the grader that carry a result text: <<document, text>>
JudgeEnvelopes ==
    << <<"{result: score 7}", TextScore7>>,
       <<"{result: fenced score 7}", TextFenced7>>,
       <<"{result: score 15}", TextScore15>>,
       <<"{result: score null}", TextScoreNull>>,
       <<"{result: score string}", TextScoreStr>>,
       <<"{result: no score}", TextNoScore>>,
       <<"{result: bare number}", TextBareNumber>>,
       <<"{result: list}", TextList>>,
       <<"{result: prose}", TextProse>>,
       <<"{result: pattern 8}", TextPattern8>>,
       <<"{result: pattern 12}", TextPattern12>>,
       <<"{result: nested score 8}", TextNested8>> >>

\* what json.loads reads from a one-snippet document
Reading(doc) ==
    IF \E i \in 1..Len(JudgeEnvelopes) : JudgeEnvelopes[i][1] = doc
    THEN LET i == CHOOSE j \in 1..Len(JudgeEnvelopes) : JudgeEnvelopes[j][1] = doc
         IN  Obj([result |-> Str(JudgeEnvelopes[i][2]), total_cost_usd |-> Num(1)])
    ELSE
    CASE doc = "{full envelope}"  -> FullEnvelope
      [] doc = "{null fields}"    -> NullEnvelope
      [] doc = "{}"               -> Obj(EmptyMap)
      [] doc = "{\"usage\": null}" -> Obj([usage |-> Null])
      [] doc = "[]"               -> List(<<>>)
      [] doc = "5"                -> Num(5)
      [] doc = "{result: null}"   -> Obj([result |-> Null, total_cost_usd |-> Num(1)])
      [] doc = "{cost: null}"     ->
             Obj([result |-> Str(TextScore7), total_cost_usd |-> Null])
      [] doc = ScoreDoc7          ->
             Obj([score |-> Num(7), reasoning |-> Str(<<"good">>)])
      [] doc = ScoreDoc15         ->
             Obj([score |-> Num(15), reasoning |-> Str(<<"great">>)])
      [] doc = NestedDoc8         ->
             Obj([evaluation |-> Obj([score |-> Num(8)])])
      [] doc = "{\"score\": null}" -> Obj([score |-> Null])
      [] doc = "{\"score\": \"high\"}" -> Obj([score |-> Str(<<"high">>)])
      [] OTHER                    -> DecodeError

\* json.loads(text): surrounding whitespace is allowed, the rest must be one
\* document
JsonLoads(text) ==
    LET core == Strip(text)
    IN  IF Len(core) = 1 THEN Reading(core[1]) ELSE DecodeError

NoMatch == [t |-> "nomatch"]

\* the integer the score pattern of judge_answer captures inside one snippet
ScorePattern(snippet) ==
    CASE snippet = ScoreDoc7          -> Num(7)
      [] snippet = ScoreDoc15         -> Num(15)
      [] snippet = "\"score\": 8"     -> Num(8)
      [] snippet = NestedDoc8         -> Num(8)
      [] snippet = "\"score\": 12"    -> Num(12)
      [] OTHER                        -> NoMatch

\* re.search(score pattern, text): the leftmost match
RegexScore(text) ==
    LET hits == {i \in 1..Len(text) : ScorePattern(text[i]) # NoMatch}
    IN  IF hits = {}
        THEN NoMatch
        ELSE ScorePattern(text[CHOOSE i \in hits : \A j \in hits : i <= j])

\* re.sub(fence pattern, "", text): a json fence opener with the blanks after
\* it, or a fence with the blanks before it, is removed, scanning left to right
RECURSIVE RemoveFences(_)
RemoveFences(s) ==
    IF s = <<>>
    THEN <<>>
    ELSE IF Len(s) >= 2 /\ s[1] = "<fence>" /\ s[2] = "json"
    THEN RemoveFences(LStrip(SubSeq(s, 3, Len(s))))
    ELSE IF LStrip(s) # <<>> /\ Head(LStrip(s)) = "<fence>"
    THEN RemoveFences(Tail(LStrip(s)))
    ELSE <<Head(s)>> \o RemoveFences(Tail(s))

----------------------------------------------------------------------------
(* Configuration: bench/tasks/tasks.json and the CONDITIONS table *)

Tasks ==
    << [id |-> "T1",
        expected_answer_keywords |-> << <<"Q", "u">>, <<"R", "e">>, <<"x">> >>],
       [id |-> "T2",
        expected_answer_keywords |-> << <<"r", "e">> >>] >>

TaskIds == {Tasks[i].id : i \in 1..Len(Tasks)}

CONDITIONS == {"baseline", "with-gnapsis"}

Keys == TaskIds \X CONDITIONS \X (1..MaxRuns)

KeyOf(result) == <<result.task_id, result.condition, result.run_id>>

----------------------------------------------------------------------------
(* bench/run.py *)

\* what subprocess.run gives: TimeoutExpired, or a completed process
TimeoutExpired ==
    [timeout |-> TRUE, returncode |-> 0, stdout |-> <<>>, stderr |-> <<>>]
Completed(rc, out, err) ==
    [timeout |-> FALSE, returncode |-> rc, stdout |-> out, stderr |-> err]

Return(result) == [kind |-> "return", result |-> result]
Raise(exc) == [kind |-> "raise", exc |-> exc]

load_tasks(task_ids) ==
    IF task_ids # {}
    THEN SelectSeq(Tasks, LAMBDA t : t.id \in task_ids)
    ELSE Tasks

RunFailure(task, condition, run_id, error) ==
    [task_id |-> task.id, condition |-> condition, run_id |-> run_id,
     error |-> Str(error)]

run_task(task, condition, run_id, model, proc) ==
    IF proc.timeout
    THEN Return(RunFailure(task, condition, run_id, <<"timeout">>))
    ELSE IF proc.returncode # 0 /\ Strip(proc.stdout) = <<>>
    THEN Return(RunFailure(task, condition, run_id, Slice(proc.stderr, 500)))
    ELSE LET response == JsonLoads(proc.stdout) IN
    IF response = DecodeError
    THEN Return(RunFailure(task, condition, run_id,
                           <<"JSON parse error: ">> \o Slice(proc.stdout, 200)))
    ELSE IF ~IsObj(response)
    THEN Raise("AttributeError")
    ELSE LET usage == Get(response.o, "usage", Obj(EmptyMap)) IN
    IF ~IsObj(usage)
    THEN Raise("AttributeError")
    ELSE Return(
        [task_id |-> task.id, condition |-> condition, run_id |-> run_id,
         model |-> model,
         num_turns |-> Get(response.o, "num_turns", Num(0)),
         duration_ms |-> Get(response.o, "duration_ms", Num(0)),
         duration_api_ms |-> Get(response.o, "duration_api_ms", Num(0)),
         total_cost_usd |-> Get(response.o, "total_cost_usd", Num(0)),
         input_tokens |-> Get(usage.o, "input_tokens", Num(0)),
         output_tokens |-> Get(usage.o, "output_tokens", Num(0)),
         cache_read_input_tokens |->
             Get(usage.o, "cache_read_input_tokens", Num(0)),
         cache_creation_input_tokens |->
             Get(usage.o, "cache_creation_input_tokens", Num(0)),
         is_error |-> Get(response.o, "is_error", Bool(FALSE)),
         session_id |-> Get(response.o, "session_id", Str(<<>>)),
         result_text |-> Get(response.o, "result", Str(<<>>)),
         wall_time_s |-> Num(1)])

\* save_result keeping only the records of successful cells
save_result_SuccessOnly(st, result) ==
    IF "error" \in DOMAIN result THEN st ELSE [st EXCEPT ![KeyOf(result)] = result]

\* the store after save_result(result)
save_result(st, result) == [st EXCEPT ![KeyOf(result)] = result]

\* the progress lines of run_benchmark after save_result raise
ProgressRaises(result) ==
    /\ "error" \notin DOMAIN result
    /\ \/ AddRaises(result.input_tokens, result.output_tokens)
       \/ FormatFloatRaises(result.total_cost_usd)

\* the cell of the k-th iteration of the three nested loops of run_benchmark
CellAt(k, a) ==
    LET nc == Len(a.conditions)
        nt == Len(a.tasks)
        z  == k - 1
    IN  [run_id    |-> (z \div (nc * nt)) + 1,
         task      |-> a.tasks[((z \div nc) % nt) + 1],
         condition |-> a.conditions[(z % nc) + 1]]

Total(a) == a.num_runs * Len(a.tasks) * Len(a.conditions)

CellKey(c) == <<c.task.id, c.condition, c.run_id>>

\* time.sleep(secs)
Sleep(secs) == [e |-> "sleep", secs |-> secs]

\* run_benchmark sleeping after every cell, the last one too
Pacing_AfterEveryCell(a, done) == a.pause > 0

\* run_benchmark sleeps after the cell that made the counter reach done
Pacing(a, done) == a.pause > 0 /\ done < Total(a)

\* the responses of the agent command in this model; the first is well formed
AgentOk == Completed(0, <<"{full envelope}">>, <<>>)
AgentResponses ==
    { AgentOk,
      TimeoutExpired,
      Completed(1, <<"{full envelope}", "\n">>, <<"warning">>),
      Completed(1, <<>>, <<"boom">>),
      Completed(1, <<" ", "\n">>, <<"boom">>),
      Completed(0, <<>>, <<>>),
      Completed(0, <<"Execution error">>, <<>>),
      Completed(0, <<"{}">>, <<>>),
      Completed(0, <<"{null fields}">>, <<>>),
      Completed(0, <<"{\"usage\": null}">>, <<>>),
      Completed(0, <<"[]">>, <<>>) }

TaskFilters == {{}, {"T1"}, {"T2"}, {"T9"}}
ConditionLists ==
    { <<"baseline", "with-gnapsis">>, <<"with-gnapsis", "baseline">>,
      <<"baseline">>, <<>> }
PauseChoices == {0, 3}

NoArgs == [prog |-> "none"]
NoFn == [fn |-> "none"]
NoCall == [prog |-> "none"]
Call(prog, key, proc, out) ==
    [prog |-> prog, key |-> key, proc |-> proc, out |-> out]

\* the process ends: its locals are gone, its exit is recorded
Exit(how) ==
    /\ pc' = "idle"
    /\ status' = how
    /\ args' = NoArgs
    /\ completed' = 0
    /\ all_results' = <<>>
    /\ results' = <<>>
    /\ idx' = 0
    /\ trace' = <<>>

\* main ends with sys.exit(1): nothing is found for the filter of the command
\* line
ExitEmpty(prog, ids) ==
    /\ pc' = "idle"
    /\ status' = "exit1"
    /\ args' = [prog |-> prog, filter |-> ids]
    /\ completed' = 0
    /\ all_results' = <<>>
    /\ results' = <<>>
    /\ idx' = 0
    /\ trace' = <<>>

\* main of run.py up to the first iteration, for the command lines given
StartRunWith(filters, runs, conditionLists, dryRuns, pauses) ==
    /\ pc = "idle"
    /\ \E ids \in filters, n \in runs, conds \in conditionLists,
          dry \in dryRuns, pause \in pauses :
          LET tasks == load_tasks(ids) IN
          IF tasks = <<>>
          THEN ExitEmpty("run", ids)
          ELSE /\ pc' = "run"
               /\ status' = "none"
               /\ args' = [prog |-> "run", tasks |-> tasks, num_runs |-> n,
                           conditions |-> conds, model |-> "sonnet",
                           dry_run |-> dry, pause |-> pause]
               /\ completed' = 0
               /\ all_results' = <<>>
               /\ trace' = <<>>
               /\ UNCHANGED <<results, idx>>
    /\ last' = NoCall
    /\ UNCHANGED <<store, combined, faults, report, table, call, ret>>

StartRun ==
    StartRunWith(TaskFilters, 0..MaxRuns, ConditionLists, BOOLEAN, PauseChoices)

\* one iteration of the innermost loop of run_benchmark
RunCell ==
    /\ pc = "run"
    /\ completed < Total(args)
    /\ LET cell == CellAt(completed + 1, args) IN
       IF args.dry_run
       THEN /\ completed' = completed + 1
            /\ UNCHANGED <<store, all_results, pc, status, args, results, idx,
                           trace, last, faults>>
       ELSE \E proc \in AgentResponses :
            /\ proc = AgentOk \/ faults < MaxFaults
            /\ faults' = IF proc = AgentOk THEN faults ELSE faults + 1
            /\ \E out \in {run_task(cell.task, cell.condition, cell.run_id,
                                     args.model, proc)} :
               /\ last' = Call("run", CellKey(cell), proc, out)
               /\ LET invoked == Append(trace, [e |-> "invoke", key |-> CellKey(cell)])
                  IN
                  IF out.kind = "raise"
                  THEN Exit("raised") /\ UNCHANGED store
                  ELSE /\ store' = save_result(store, out.result)
                       /\ IF ProgressRaises(out.result)
                          THEN Exit("raised")
                          ELSE /\ completed' = completed + 1
                               /\ all_results' = Append(all_results, out.result)
                               /\ trace' =
                                    LET saved == Append(invoked,
                                           [e |-> "save", key |-> KeyOf(out.result)])
                                    IN  IF Pacing(args, completed + 1)
                                        THEN Append(saved, Sleep(args.pause))
                                        ELSE saved
                               /\ UNCHANGED <<pc, status, args, results, idx>>
    /\ UNCHANGED <<combined, report, table, call, ret>>

\* run_benchmark after the loops, and the end of main
FinishRun ==
    /\ pc = "run"
    /\ completed = Total(args)
    /\ combined' = IF all_results # <<>> THEN all_results ELSE combined
    /\ Exit("ok")
    /\ last' = NoCall
    /\ UNCHANGED <<store, faults, report, table, call, ret>>

----------------------------------------------------------------------------
(* bench/judge.py *)

\* the files of bench/results/raw in sorted(glob("*.json")) order: the per-cell
\* files by name, then all_results.json (capital letters sort first)
SortedTaskIds == <<"T1", "T2">>
SortedConditions == <<"baseline", "with-gnapsis">>
CombinedPath == <<"all_results", "json", 0>>

SortedPaths(st, comb) ==
    LET nc == Len(SortedConditions)
        n  == Len(SortedTaskIds) * nc * MaxRuns
        keyAt(k) == << SortedTaskIds[((k - 1) \div (nc * MaxRuns)) + 1],
                       SortedConditions[(((k - 1) \div MaxRuns) % nc) + 1],
                       ((k - 1) % MaxRuns) + 1 >>
        cells == SelectSeq([k \in 1..n |-> keyAt(k)], LAMBDA p : st[p] # NoFile)
    IN  IF comb # <<>> THEN Append(cells, CombinedPath) ELSE cells

\* the <<path, data>> pairs of a list of paths
WithData(st, paths) == [i \in 1..Len(paths) |-> <<paths[i], st[paths[i]]>>]

\* load_results of judge.py without its task filter
judge_load_results_NoFilter(st, comb, task_ids) ==
    LET keep(p) == p # CombinedPath /\ "error" \notin DOMAIN st[p]
    IN  WithData(st, SelectSeq(SortedPaths(st, comb), keep))

\* load_results of judge.py without the test for the error key
judge_load_results_WithFailures(st, comb, task_ids) ==
    LET keep(p) == /\ p # CombinedPath
                   /\ ~(task_ids # {} /\ st[p].task_id \notin task_ids)
    IN  WithData(st, SelectSeq(SortedPaths(st, comb), keep))

\* load_results(task_ids) of judge.py: <<path, data>> pairs
judge_load_results(st, comb, task_ids) ==
    LET keep(p) == /\ p # CombinedPath
                   /\ "error" \notin DOMAIN st[p]
                   /\ ~(task_ids # {} /\ st[p].task_id \notin task_ids)
    IN  WithData(st, SelectSeq(SortedPaths(st, comb), keep))

\* load_tasks() of judge.py: the task of an id, or Null
TaskOf(id) ==
    IF \E i \in 1..Len(Tasks) : Tasks[i].id = id
    THEN Tasks[CHOOSE i \in 1..Len(Tasks) : Tasks[i].id = id]
    ELSE Null

\* c.lower() for the letters of this model
LowerChar(c) ==
    CASE c = "Q" -> "q"
      [] c = "U" -> "u"
      [] c = "R" -> "r"
      [] c = "E" -> "e"
      [] OTHER   -> c

Lower(s) == [i \in 1..Len(s) |-> LowerChar(s[i])]

\* sub in text
Contains(text, sub) ==
    \E i \in 0..(Len(text) - Len(sub)) : SubSeq(text, i + 1, i + Len(sub)) = sub

\* count_keyword_hits matching without lower()
count_keyword_hits_CaseSensitive(text, keywords) ==
    LET hits == SelectSeq(keywords, LAMBDA kw : Contains(text, kw))
    IN  <<Len(hits), hits>>

count_keyword_hits(text, keywords) ==
    LET text_lower == Lower(text)
        hits == SelectSeq(keywords, LAMBDA kw : Contains(text_lower, Lower(kw)))
    IN  <<Len(hits), hits>>

judge_answer(task, answer_text, model, proc) ==
    IF proc.timeout
    THEN Return([score |-> Num(-1), reasoning |-> Str(<<"Judge timed out">>)])
    ELSE IF proc.returncode # 0 /\ Strip(proc.stdout) = <<>>
    THEN Return([score |-> Num(-1),
                 reasoning |-> Str(<<"Judge error: ">> \o Slice(proc.stderr, 200))])
    ELSE LET response == JsonLoads(proc.stdout) IN
    IF response = DecodeError
    THEN Return([score |-> Num(-1), reasoning |-> Str(<<"Judge JSON parse error">>)])
    ELSE IF ~IsObj(response)
    THEN Raise("AttributeError")
    ELSE LET result_text == Get(response.o, "result", Str(<<>>))
             judge_cost == Get(response.o, "total_cost_usd", Num(0))
         IN
    IF ~IsStr(result_text)
    THEN Raise("TypeError")
    ELSE LET clean == Strip(RemoveFences(result_text.s))
             parsed == JsonLoads(clean)
             match == RegexScore(result_text.s)
             score_data ==
                 IF parsed # DecodeError
                 THEN parsed
                 ELSE IF match # NoMatch
                 THEN Obj([score |-> match,
                           reasoning |-> Str(Slice(result_text.s, 200))])
                 ELSE Obj([score |-> Num(-1),
                           reasoning |-> Str(<<"Failed to parse: ">>
                                             \o Slice(result_text.s, 200))])
         IN
    IF ~IsObj(score_data)
    THEN Raise("TypeError")
    ELSE Return(SetField(score_data.o, "judge_cost_usd", judge_cost))

\* the keyword fields set on a record rebuilt without its score fields
WithKeywords_DropsScore(data, kh, task) ==
    SetField(SetField(SetField(
        [f \in DOMAIN data \ {"quality_score", "quality_reasoning",
                               "judge_cost_usd"} |-> data[f]],
        "keyword_hits", Num(kh[1])),
        "keyword_total", Num(Len(task.expected_answer_keywords))),
        "keyword_list", List([i \in 1..Len(kh[2]) |-> Str(kh[2][i])]))

\* data after main has set the three keyword fields from kh = (hits, hit_list)
WithKeywords(data, kh, task) ==
    SetField(SetField(SetField(data,
        "keyword_hits", Num(kh[1])),
        "keyword_total", Num(Len(task.expected_answer_keywords))),
        "keyword_list", List([i \in 1..Len(kh[2]) |-> Str(kh[2][i])]))

\* data after main has set the three judging fields from score_data
WithScore(data, score_data) ==
    SetField(SetField(SetField(data,
        "quality_score", Get(score_data, "score", Num(-1))),
        "quality_reasoning", Get(score_data, "reasoning", Str(<<>>))),
        "judge_cost_usd", Get(score_data, "judge_cost_usd", Num(0)))

\* v >= 0 raises TypeError
CompareRaises(v) == v.t \notin {"num", "bool"}

\* the comparison the other way round: v < 0
NonNegative_Inverted(v) == IF v.t = "bool" THEN FALSE ELSE v.n < 0

\* v >= 0, for a v that can be compared
NonNegative(v) == IF v.t = "bool" THEN TRUE ELSE v.n >= 0

\* the responses of the grader command in this model; the first is well formed
JudgeOk == Completed(0, <<"{result: score 7}">>, <<>>)
JudgeResponses ==
    { Completed(0, <<JudgeEnvelopes[i][1]>>, <<>>) : i \in 1..Len(JudgeEnvelopes) }
    \cup
    { TimeoutExpired,
      Completed(1, <<>>, <<"overloaded">>),
      Completed(1, <<"{result: score 7}">>, <<"warning">>),
      Completed(0, <<"Execution error">>, <<>>),
      Completed(0, <<"{}">>, <<>>),
      Completed(0, <<"[]">>, <<>>),
      Completed(0, <<"{result: null}">>, <<>>),
      Completed(0, <<"{cost: null}">>, <<>>) }

JudgeTaskFilters == {{}, {"T1"}, {"T9"}}
JudgePauseChoices == {2}

\* main of judge.py up to the first iteration, for the command lines given
StartJudgeWith(filters, forces, keywordsOnly, pauses) ==
    /\ pc = "idle"
    /\ \E ids \in filters, force \in forces, kw \in keywordsOnly,
          pause \in pauses :
          \E loaded \in {judge_load_results(store, combined, ids)} :
          IF loaded = <<>>
          THEN ExitEmpty("judge", ids)
          ELSE /\ pc' = "judge"
               /\ status' = "none"
               /\ args' = [prog |-> "judge", tasks |-> ids, model |-> "sonnet",
                           force |-> force, pause |-> pause,
                           keywords_only |-> kw]
               /\ results' = loaded
               /\ idx' = 0
               /\ trace' = <<>>
               /\ UNCHANGED <<completed, all_results>>
    /\ last' = NoCall
    /\ UNCHANGED <<store, combined, faults, report, table, call, ret>>

StartJudge ==
    StartJudgeWith(JudgeTaskFilters, BOOLEAN, BOOLEAN, JudgePauseChoices)

\* the loop goes on to the next entry
NextEntry ==
    /\ idx' = idx + 1
    /\ UNCHANGED <<pc, status, args, completed, all_results, results>>

\* one iteration of the loop of main of judge.py
JudgeRecord ==
    /\ pc = "judge"
    /\ idx < Len(results)
    /\ LET path == results[idx + 1][1]
           data == results[idx + 1][2]
           task == TaskOf(data.task_id)
           answer == Get(data, "result_text", Str(<<>>))
       IN
       IF task = Null \/ ~Truthy(answer)
       THEN NextEntry /\ UNCHANGED <<store, trace, last, faults>>
       ELSE IF ~IsStr(answer)
       THEN Exit("raised") /\ UNCHANGED <<store, last, faults>>
       ELSE
       \E data1 \in {WithKeywords(data,
                          count_keyword_hits(answer.s, task.expected_answer_keywords),
                          task)} :
       IF args.keywords_only
       THEN /\ store' = [store EXCEPT ![path] = data1]
            /\ trace' = Append(trace, [e |-> "write", key |-> path])
            /\ NextEntry
            /\ UNCHANGED <<last, faults>>
       ELSE IF ~args.force /\ "quality_score" \in DOMAIN data1
               /\ CompareRaises(data1.quality_score)
       THEN Exit("raised") /\ UNCHANGED <<store, last, faults>>
       ELSE IF ~args.force /\ "quality_score" \in DOMAIN data1
               /\ NonNegative(data1.quality_score)
       THEN NextEntry /\ UNCHANGED <<store, trace, last, faults>>
       ELSE
       \E proc \in JudgeResponses :
           /\ proc = JudgeOk \/ faults < MaxFaults
           /\ faults' = IF proc = JudgeOk THEN faults ELSE faults + 1
           /\ \E out \in {judge_answer(task, answer.s, args.model, proc)} :
              /\ last' = Call("judge", path, proc, out)
              /\ LET graded == Append(trace, [e |-> "grade", key |-> path]) IN
                 IF out.kind = "raise"
                 THEN Exit("raised") /\ UNCHANGED store
                 ELSE
                 \E data2 \in {WithScore(data1, out.result)} :
                 IF AddRaises(Num(0), data2.judge_cost_usd)
                 THEN Exit("raised") /\ UNCHANGED store
                 ELSE /\ store' = [store EXCEPT ![path] = data2]
                      /\ trace' =
                           LET slept == IF args.pause > 0 /\ idx < Len(results) - 1
                                        THEN Append(graded, Sleep(args.pause))
                                        ELSE graded
                           IN  Append(slept, [e |-> "write", key |-> path])
                      /\ NextEntry
    /\ UNCHANGED <<combined, report, table, call, ret>>

\* main of judge.py after the loop
FinishJudge ==
    /\ pc = "judge"
    /\ idx = Len(results)
    /\ Exit("ok")
    /\ last' = NoCall
    /\ UNCHANGED <<store, combined, faults, report, table, call, ret>>

----------------------------------------------------------------------------
(* bench/analyze.py *)

METRICS ==
    << "total_input_tokens", "input_tokens", "cache_read_input_tokens",
       "cache_creation_input_tokens", "output_tokens", "total_cost_usd",
       "num_turns", "duration_ms", "quality_score", "keyword_hits" >>

TypeError == [t |-> "TypeError"]

\* the number a num or bool stands for
NumVal(v) == IF v.t = "bool" THEN (IF v.b THEN 1 ELSE 0) ELSE v.n

\* a + b
Add(a, b) ==
    IF AddRaises(a, b) THEN TypeError
    ELSE IF a.t = "str" THEN Str(a.s \o b.s)
    ELSE IF a.t = "list" THEN List(a.l \o b.l)
    ELSE Num(NumVal(a) + NumVal(b))

\* a + b + c, left to right
Add3(a, b, c) == IF Add(a, b) = TypeError THEN TypeError ELSE Add(Add(a, b), c)

\* load_results keeping a total_input_tokens the record already holds
TotalInputTokens_KeepStored(d) ==
    IF "total_input_tokens" \in DOMAIN d
    THEN d.total_input_tokens
    ELSE Add3(Get(d, "input_tokens", Num(0)),
              Get(d, "cache_read_input_tokens", Num(0)),
              Get(d, "cache_creation_input_tokens", Num(0)))

\* the total input tokens load_results computes for a record
TotalInputTokens(d) ==
    Add3(Get(d, "input_tokens", Num(0)),
         Get(d, "cache_read_input_tokens", Num(0)),
         Get(d, "cache_creation_input_tokens", Num(0)))

\* the records of a list of paths, each with its total_input_tokens
WithTotals(st, paths) ==
    IF \E i \in 1..Len(paths) : TotalInputTokens(st[paths[i]]) = TypeError
    THEN Raise("TypeError")
    ELSE Return([i \in 1..Len(paths) |->
             SetField(st[paths[i]], "total_input_tokens",
                      TotalInputTokens(st[paths[i]]))])

\* load_results of analyze.py without the test for the error key
analyze_load_results_All(st, comb) ==
    WithTotals(st, SelectSeq(SortedPaths(st, comb), LAMBDA p : p # CombinedPath))

\* load_results() of analyze.py: the list of records, unless it raises
analyze_load_results(st, comb) ==
    WithTotals(st, SelectSeq(SortedPaths(st, comb),
                   LAMBDA p : p # CombinedPath /\ "error" \notin DOMAIN st[p]))

\* rational numbers in lowest terms
RECURSIVE Gcd(_, _)
Gcd(a, b) == IF b = 0 THEN a ELSE Gcd(b, a % b)
Abs(x) == IF x < 0 THEN -x ELSE x
Rat(n, d) ==
    LET g == Gcd(Abs(n), d) IN [num |-> n \div g, den |-> d \div g]

RECURSIVE SumSeq(_)
SumSeq(s) == IF s = <<>> THEN 0 ELSE Head(s) + SumSeq(Tail(s))

RECURSIVE Sorted(_)
Sorted(s) ==
    IF s = <<>> THEN <<>>
    ELSE LET i == CHOOSE j \in 1..Len(s) : \A k \in 1..Len(s) : s[j] <= s[k]
         IN  <<s[i]>> \o Sorted(SubSeq(s, 1, i - 1) \o SubSeq(s, i + 1, Len(s)))

\* statistics.mean
Mean(values) == Rat(SumSeq(values), Len(values))

\* statistics.median
Median(values) ==
    LET srt == Sorted(values)
        n == Len(values)
    IN  IF n % 2 = 1 THEN Rat(srt[(n + 1) \div 2], 1)
        ELSE Rat(srt[n \div 2] + srt[(n \div 2) + 1], 2)

StatisticsError == [t |-> "StatisticsError"]

\* statistics.stdev is the square root of the sample variance, kept as
\* [sqrt |-> variance]; it raises on fewer than two values
Stdev(values) ==
    LET n == Len(values)
        sq == [i \in 1..n |-> values[i] * values[i]]
    IN  IF n < 2
        THEN StatisticsError
        ELSE [sqrt |-> Rat(n * SumSeq(sq) - SumSeq(values) * SumSeq(values),
                           n * (n - 1))]

Zero == Rat(0, 1)

\* compute_stats calling statistics.stdev whatever the number of values
compute_stats_AlwaysStdev(values) ==
    IF values = <<>>
    THEN [mean |-> Zero, median |-> Zero, stdev |-> [sqrt |-> Zero], n |-> 0]
    ELSE [mean |-> Mean(values), median |-> Median(values),
          stdev |-> Stdev(values), n |-> Len(values)]

compute_stats(values) ==
    IF values = <<>>
    THEN [mean |-> Zero, median |-> Zero, stdev |-> [sqrt |-> Zero], n |-> 0]
    ELSE [mean |-> Mean(values), median |-> Median(values),
          stdev |-> IF Len(values) > 1 THEN Stdev(values) ELSE [sqrt |-> Zero],
          n |-> Len(values)]

\* the values of one metric over the runs of a group hold one that
\* statistics.mean or the comparison with 0 raises on
MetricRaises(runs, metric_key) ==
    \E i \in 1..Len(runs) :
        /\ metric_key \in DOMAIN runs[i]
        /\ runs[i][metric_key].t \notin {"num", "bool", "null"}

\* the values of one metric over the runs of a group, as aggregate collects
\* them
MetricValues(runs, metric_key) ==
    LET present == SelectSeq(runs, LAMBDA r :
                       metric_key \in DOMAIN r /\ r[metric_key] # Null)
        raw == [i \in 1..Len(present) |-> present[i][metric_key]]
        nums == [i \in 1..Len(raw) |-> NumVal(raw[i])]
    IN  IF metric_key = "quality_score"
        THEN SelectSeq(nums, LAMBDA v : v >= 0)
        ELSE nums

\* the three statistics fields of one metric in an entry
StatFields(metric_key, stats) ==
    ((metric_key \o "_mean") :> stats.mean)
    @@ ((metric_key \o "_median") :> stats.median)
    @@ ((metric_key \o "_stdev") :> stats.stdev)

RECURSIVE MetricFields(_, _)
MetricFields(runs, k) ==
    IF k > Len(METRICS) THEN EmptyMap
    ELSE StatFields(METRICS[k], compute_stats(MetricValues(runs, METRICS[k])))
         @@ MetricFields(runs, k + 1)

\* the entry of one group
Entry(task_id, condition, runs) ==
    LET total_tokens ==
            [i \in 1..Len(runs) |->
                NumVal(Add(Get(runs[i], "input_tokens", Num(0)),
                           Get(runs[i], "output_tokens", Num(0))))]
    IN  [task_id |-> task_id, condition |-> condition, n_runs |-> Len(runs),
         total_tokens_mean |-> IF total_tokens # <<>> THEN Mean(total_tokens)
                               ELSE Zero]
        @@ MetricFields(runs, 1)

GroupRuns(rs, task_id, condition) ==
    SelectSeq(rs, LAMBDA r : r.task_id = task_id /\ r.condition = condition)

\* the (task_id, condition) pairs that have runs, in sorted order
GroupKeys(rs) ==
    LET nc == Len(SortedConditions)
        n == Len(SortedTaskIds) * nc
        groupAt(k) == << SortedTaskIds[((k - 1) \div nc) + 1],
                         SortedConditions[((k - 1) % nc) + 1] >>
    IN  SelectSeq([k \in 1..n |-> groupAt(k)],
                  LAMBDA g : GroupRuns(rs, g[1], g[2]) # <<>>)

\* statistics or an addition raise on the runs of a group
GroupRaises(runs) ==
    \/ \E k \in 1..Len(METRICS) : MetricRaises(runs, METRICS[k])
    \/ \E i \in 1..Len(runs) :
           Add(Get(runs[i], "input_tokens", Num(0)),
               Get(runs[i], "output_tokens", Num(0))).t # "num"

Entries(rs, groups) ==
    IF \E i \in 1..Len(groups) :
           GroupRaises(GroupRuns(rs, groups[i][1], groups[i][2]))
    THEN Raise("TypeError")
    ELSE Return([i \in 1..Len(groups) |->
             Entry(groups[i][1], groups[i][2],
                   GroupRuns(rs, groups[i][1], groups[i][2]))])

\* aggregate(results): the report, unless it raises
aggregate(rs) == Entries(rs, GroupKeys(rs))

\* arithmetic of print_comparison on the means of a report
ZeroDivisionError == [t |-> "ZeroDivisionError"]

RatAdd(a, b) == Rat(a.num * b.den + b.num * a.den, a.den * b.den)
RatSub(a, b) == Rat(a.num * b.den - b.num * a.den, a.den * b.den)
RatMul(a, b) ==
    IF a = ZeroDivisionError THEN a ELSE Rat(a.num * b.num, a.den * b.den)
RatDiv(a, b) ==
    IF b.num = 0 THEN ZeroDivisionError
    ELSE IF b.num > 0 THEN Rat(a.num * b.den, a.den * b.num)
    ELSE Rat(-(a.num * b.den), a.den * (-b.num))

RECURSIVE RatSum(_)
RatSum(vals) == IF vals = <<>> THEN Zero ELSE RatAdd(Head(vals), RatSum(Tail(vals)))

\* statistics.mean of a list of means
RatMean(vals) == RatDiv(RatSum(vals), Rat(Len(vals), 1))

\* the percent change computed without the test for a zero baseline
PercentChange_Unguarded(v1, delta) == RatMul(RatDiv(delta, v1), Rat(100, 1))

\* pct = (delta / v1 * 100) if v1 != 0 else 0
PercentChange(v1, delta) ==
    IF v1 # Zero THEN RatMul(RatDiv(delta, v1), Rat(100, 1)) ELSE Zero

\* one printed row of the comparison table
Row(kind, task, metric, v1, v2) ==
    [kind |-> kind, task |-> task, metric |-> metric, v1 |-> v1, v2 |-> v2,
     delta |-> RatSub(v2, v1), pct |-> PercentChange(v1, RatSub(v2, v1))]

\* next(r for r in report if ...), or Null
FindEntry(rep, task, condition) ==
    LET hits == SelectSeq(rep, LAMBDA r :
                    r.task_id = task /\ r.condition = condition)
    IN  IF hits = <<>> THEN Null ELSE hits[1]

\* the rows of one task: one per metric, then the total tokens row
TaskRows(rep, task, c1, c2) ==
    LET r1 == FindEntry(rep, task, c1)
        r2 == FindEntry(rep, task, c2)
    IN  IF r1 = Null \/ r2 = Null
        THEN <<>>
        ELSE [k \in 1..Len(METRICS) |->
                 Row("task", task, METRICS[k],
                     r1[METRICS[k] \o "_mean"], r2[METRICS[k] \o "_mean"])]
             \o << Row("total", task, "total_tokens",
                       r1.total_tokens_mean, r2.total_tokens_mean) >>

\* the means of one metric over the entries of a condition
MeansOf(rep, metric, condition) ==
    LET es == SelectSeq(rep, LAMBDA r : r.condition = condition)
    IN  [i \in 1..Len(es) |-> es[i][metric \o "_mean"]]

\* the AVERAGE rows
AverageRows(rep, c1, c2) ==
    LET shown == SelectSeq(METRICS, LAMBDA m :
                     MeansOf(rep, m, c1) # <<>> /\ MeansOf(rep, m, c2) # <<>>)
    IN  [k \in 1..Len(shown) |->
            Row("average", "AVERAGE", shown[k],
                RatMean(MeansOf(rep, shown[k], c1)),
                RatMean(MeansOf(rep, shown[k], c2)))]

RECURSIVE AllTaskRows(_, _, _, _)
AllTaskRows(rep, tasks, c1, c2) ==
    IF tasks = <<>> THEN <<>>
    ELSE TaskRows(rep, Head(tasks), c1, c2) \o AllTaskRows(rep, Tail(tasks), c1, c2)

\* print_comparison(report): the rows of the comparison table, none when the
\* report has fewer than two conditions
print_comparison(rep) ==
    LET tasks == SelectSeq(SortedTaskIds, LAMBDA t :
                     \E i \in 1..Len(rep) : rep[i].task_id = t)
        conditions == SelectSeq(SortedConditions, LAMBDA c :
                     \E i \in 1..Len(rep) : rep[i].condition = c)
    IN  IF Len(conditions) < 2
        THEN <<>>
        ELSE AllTaskRows(rep, tasks, conditions[1], conditions[2])
             \o AverageRows(rep, conditions[1], conditions[2])

\* main of analyze.py
Analyze ==
    /\ pc = "idle"
    /\ \E loaded \in {analyze_load_results(store, combined)} :
       IF loaded.kind = "raise"
       THEN status' = "raised" /\ UNCHANGED <<report, table>>
       ELSE IF loaded.result = <<>>
       THEN status' = "exit1" /\ UNCHANGED <<report, table>>
       ELSE \E agg \in {aggregate(loaded.result)} :
            IF agg.kind = "raise"
            THEN status' = "raised" /\ UNCHANGED <<report, table>>
            ELSE /\ status' = "ok"
                 /\ report' = agg.result
                 /\ table' = print_comparison(agg.result)
    /\ args' = [prog |-> "analyze"]
    /\ UNCHANGED <<store, combined, pc, completed, all_results, results, idx,
                   trace, last, faults, call, ret>>

EmptyStore == [k \in Keys |-> NoFile]

Init ==
    /\ store = EmptyStore
    /\ combined = <<>>
    /\ pc = "idle"
    /\ status = "none"
    /\ args = NoArgs
    /\ completed = 0
    /\ all_results = <<>>
    /\ results = <<>>
    /\ idx = 0
    /\ trace = <<>>
    /\ last = NoCall
    /\ faults = 0
    /\ report = <<>>
    /\ table = <<>>
    /\ call = NoFn
    /\ ret = NoFn

\* a run batch started on an empty Result Store
FreshRun == store = EmptyStore /\ StartRun

NextRun == FreshRun \/ RunCell \/ FinishRun

SpecRun == Init /\ [][NextRun]_vars

----------------------------------------------------------------------------
(* The judge and aggregate phases over the stores a run batch leaves *)

\* the responses a finished run batch has persisted a record for
SavedResponses == {AgentOk, TimeoutExpired, Completed(0, <<"{}">>, <<>>)}

\* the command lines of the run batches that produced the initial stores
SeedBatches ==
    { [tasks |-> load_tasks({}), num_runs |-> 1,
       conditions |-> <<"baseline", "with-gnapsis">>, model |-> "sonnet",
       dry_run |-> FALSE, pause |-> 3],
      [tasks |-> load_tasks({"T1"}), num_runs |-> MaxRuns,
       conditions |-> <<"baseline", "with-gnapsis">>, model |-> "sonnet",
       dry_run |-> FALSE, pause |-> 3] }

\* all_results of a finished batch with command line a and responses f
BatchResults(a, f) ==
    [k \in 1..Total(a) |->
        run_task(CellAt(k, a).task, CellAt(k, a).condition, CellAt(k, a).run_id,
                 a.model, f[k]).result]

RECURSIVE SaveAll(_, _)
SaveAll(st, rs) ==
    IF rs = <<>> THEN st ELSE SaveAll(save_result(st, Head(rs)), Tail(rs))

InitStore ==
    /\ \E a \in SeedBatches :
       \E bad \in {b \in SUBSET (1..Total(a)) : Cardinality(b) <= 1} :
       \E g \in [bad -> SavedResponses \ {AgentOk}] :
          LET f == [k \in 1..Total(a) |-> IF k \in bad THEN g[k] ELSE AgentOk]
          IN  /\ combined = BatchResults(a, f)
              /\ store = SaveAll(EmptyStore, combined)
    /\ pc = "idle"
    /\ status = "ok"
    /\ args = NoArgs
    /\ completed = 0
    /\ all_results = <<>>
    /\ results = <<>>
    /\ idx = 0
    /\ trace = <<>>
    /\ last = NoCall
    /\ faults = 0
    /\ report = <<>>
    /\ table = <<>>
    /\ call = NoFn
    /\ ret = NoFn

\* no aggregate phase has run yet
BeforeAnalyze == args.prog # "analyze"

JudgePass == BeforeAnalyze /\ StartJudge
Aggregation == BeforeAnalyze /\ Analyze

NextJudge == JudgePass \/ JudgeRecord \/ FinishJudge \/ Aggregation

SpecJudge == InitStore /\ [][NextJudge]_vars

----------------------------------------------------------------------------
(* Properties of the run batch, checked under SpecRun *)

RECURSIVE Flatten(_)
Flatten(ss) == IF ss = <<>> THEN <<>> ELSE Head(ss) \o Flatten(Tail(ss))

\* the cells of a batch, repetition outermost, then task, then condition
ExecutionOrder(a) ==
    Flatten([r \in 1..a.num_runs |->
        Flatten([t \in 1..Len(a.tasks) |->
            [c \in 1..Len(a.conditions) |->
                <<a.tasks[t].id, a.conditions[c], r>>]])])

EventKeys(tr, e) ==
    LET hits == SelectSeq(tr, LAMBDA ev : ev.e = e)
    IN  [i \in 1..Len(hits) |-> hits[i].key]

IsPrefix(s, t) == Len(s) <= Len(t) /\ \A i \in 1..Len(s) : s[i] = t[i]

StoredKeys(st) == {k \in Keys : st[k] # NoFile}

IsFailure(d) == d # NoFile /\ "error" \in DOMAIN d

BatchEnds == pc = "run" /\ pc' = "idle" /\ ~args.dry_run

\* the cells the agent was invoked for when the batch ends with this step
InvokedAtEnd ==
    IF last' # NoCall /\ last' # last
    THEN Append(EventKeys(trace, "invoke"), last'.key)
    ELSE EventKeys(trace, "invoke")

\* C1: a run batch that is not a dry run has, when it ends, invoked the agent
\* exactly once for every cell, repetition outermost, then task, then condition.
C1_EveryCellOnceInOrder ==
    [][BatchEnds => InvokedAtEnd = ExecutionOrder(args)]_vars

\* C2: whatever the agent answers, run_benchmark never raises: no batch ends
\* with an exception.
C2_BatchNeverRaises == ~(status = "raised" /\ last # NoCall /\ last.prog = "run")

\* what the classification of C3 prescribes for a response of the agent
Undecodable(out) == JsonLoads(out) = DecodeError

Classified(proc, out) ==
    /\ out.kind = "return"
    /\ IF proc.timeout
       THEN IsFailure(out.result) /\ out.result.error = Str(<<"timeout">>)
       ELSE IF proc.returncode # 0 /\ \A i \in 1..Len(proc.stdout) :
                                          proc.stdout[i] \in Whitespace
       THEN IsFailure(out.result)
            /\ out.result.error = Str(Slice(proc.stderr, 500))
       ELSE IF Undecodable(proc.stdout)
       THEN IsFailure(out.result)
            /\ IsPrefix(<<"JSON parse error: ">>, out.result.error.s)
       ELSE ~IsFailure(out.result)

\* C3: every invocation of the agent is classified into exactly one outcome
\* record: timeout, then process error, then parse error, otherwise Success;
\* the record carries the identity of the cell.
C3_OneOutcomePerInvocation ==
    (last # NoCall /\ last.prog = "run") =>
        /\ Classified(last.proc, last.out)
        /\ KeyOf(last.out.result) = last.key

\* C4: in a batch started on an empty store, between two invocations the
\* per-cell records of the store are exactly the cells invoked so far, each
\* under its own key and written before the next invocation, and these cells
\* are a prefix of the execution order.
C4_StoreIsInvokedPrefix ==
    (pc = "run" /\ ~args.dry_run) =>
        LET invoked == EventKeys(trace, "invoke")
            calls == SelectSeq(trace, LAMBDA ev : ev.e \in {"invoke", "save"})
        IN  /\ IsPrefix(invoked, ExecutionOrder(args))
            /\ Len(invoked) = completed
            /\ StoredKeys(store) = {invoked[i] : i \in 1..Len(invoked)}
            /\ \A k \in StoredKeys(store) : KeyOf(store[k]) = k
            /\ Len(calls) = 2 * Len(invoked)
            /\ \A i \in 1..Len(invoked) :
                   /\ calls[2 * i - 1] = [e |-> "invoke", key |-> invoked[i]]
                   /\ calls[2 * i] = [e |-> "save", key |-> invoked[i]]

\* a batch of two repetitions in the middle of its second repetition, with the
\* record of a failed cell in the store
C4_Witness ==
    /\ pc = "run" /\ ~args.dry_run
    /\ args.num_runs = 2
    /\ completed > Len(args.tasks) * Len(args.conditions)
    /\ completed < Total(args)
    /\ \E k \in Keys : IsFailure(store[k])

----------------------------------------------------------------------------
(* Properties of the judge and aggregate phases, checked under SpecJudge *)

JudgingFields ==
    {"quality_score", "quality_reasoning", "judge_cost_usd",
     "keyword_hits", "keyword_total", "keyword_list"}

HasValidScore(d) ==
    /\ d # NoFile
    /\ "quality_score" \in DOMAIN d
    /\ d.quality_score.t = "num"
    /\ d.quality_score.n >= 0

\* the number of grading calls of the pass so far for a path
GradeCalls(tr, path) ==
    Len(SelectSeq(tr, LAMBDA ev : ev.e = "grade" /\ ev.key = path))

\* C5: in a judge pass without force, the iteration for a record that holds a
\* valid quality score (>= 0) makes no grading call and leaves the store as it
\* is, so a second pass changes nothing the first pass scored validly.
C5_ValidScoreNotRegraded ==
    [][(/\ pc = "judge" /\ ~args.force /\ idx < Len(results)
        /\ HasValidScore(store[results[idx + 1][1]]))
       => /\ store' = store
          /\ last' = last
          /\ faults' = faults
          /\ pc' = "judge" /\ idx' = idx + 1
          /\ EventKeys(trace', "grade") = EventKeys(trace, "grade")]_vars

\* a pass without force and with grading has just gone past a record that an
\* earlier pass scored validly
C5_Witness ==
    /\ pc = "judge" /\ ~args.force /\ ~args.keywords_only
    /\ idx >= 1
    /\ HasValidScore(results[idx][2])
    /\ store[results[idx][1]] = results[idx][2]
    /\ GradeCalls(trace, results[idx][1]) = 0

\* C6: at the end of a judge pass with force set (and grading not switched
\* off), every selected Success record has had exactly one grading call and
\* holds a quality score.
C6_ForcedPassGradesEverySelected ==
    (pc = "judge" /\ args.force /\ ~args.keywords_only /\ idx = Len(results))
    => \A i \in 1..Len(results) :
           /\ GradeCalls(trace, results[i][1]) = 1
           /\ "quality_score" \in DOMAIN store[results[i][1]]

\* C7: whatever the grader answers, the judge pass does not raise.
C7_JudgeNeverRaises == ~(status = "raised" /\ last.prog = "judge")

\* C8: every record of the store that has a quality_score holds a number in
\* 0..10 or exactly -1.
C8_ScoreInRange ==
    \A k \in Keys :
        (store[k] # NoFile /\ "quality_score" \in DOMAIN store[k])
        => /\ store[k].quality_score.t = "num"
           /\ \/ store[k].quality_score.n = -1
              \/ store[k].quality_score.n \in 0..10

Selected(k) ==
    /\ store[k] # NoFile
    /\ ~IsFailure(store[k])
    /\ args.tasks = {} \/ k[1] \in args.tasks

\* C9: a step of a judge pass changes only judging-extension fields of
\* selected Success records, under the same key; it creates and deletes no
\* record, leaves the combined collection alone, and grades only selected
\* Success records.
C9_JudgeFrame ==
    [][pc = "judge" =>
        /\ combined' = combined
        /\ \A k \in Keys :
              /\ (store[k] = NoFile) <=> (store'[k] = NoFile)
              /\ store'[k] # store[k] =>
                    /\ Selected(k)
                    /\ KeyOf(store'[k]) = k
                    /\ DOMAIN store'[k] \ JudgingFields
                         = DOMAIN store[k] \ JudgingFields
                    /\ \A f \in DOMAIN store[k] \ JudgingFields :
                           store'[k][f] = store[k][f]
        /\ (last' # last /\ last' # NoCall) => Selected(last'.key)]_vars

\* a pass filtered to T1 has graded and written a record while the store holds
\* a Failure record and a record of T2
C9_Witness ==
    /\ pc = "judge" /\ args.tasks = {"T1"}
    /\ \E i \in 1..Len(trace) : trace[i].e = "grade"
    /\ \E i \in 1..Len(trace) : trace[i].e = "write"
    /\ \E k \in Keys : IsFailure(store[k])
    /\ \E k \in Keys : k[1] = "T2" /\ store[k] # NoFile /\ ~IsFailure(store[k])

\* the store without its Failure records
WithoutFailures(st) == [k \in Keys |-> IF IsFailure(st[k]) THEN NoFile ELSE st[k]]

SuccessCount(st, task_id, condition) ==
    Cardinality({k \in Keys : /\ st[k] # NoFile /\ ~IsFailure(st[k])
                               /\ k[1] = task_id /\ k[2] = condition})

\* C10: in the report of the aggregate phase, n_runs of each group is the
\* number of non-Failure records of the group in the store, a group has an
\* entry exactly when it has such a record, and the report is the one the
\* store without its Failure records gives.
C10_FailuresExcluded ==
    (args.prog = "analyze" /\ status = "ok") =>
        /\ \A t \in TaskIds, c \in CONDITIONS :
               Cardinality({i \in 1..Len(report) :
                   report[i].task_id = t /\ report[i].condition = c})
               = IF SuccessCount(store, t, c) > 0 THEN 1 ELSE 0
        /\ \A i \in 1..Len(report) :
               report[i].n_runs
               = SuccessCount(store, report[i].task_id, report[i].condition)
        /\ report = aggregate(analyze_load_results(WithoutFailures(store),
                                                   combined).result).result

\* one task, two conditions, two repetitions, one baseline cell failed:
\* baseline has n_runs = 1 and the other condition n_runs = 2
C10_Witness ==
    /\ args.prog = "analyze" /\ status = "ok"
    /\ \E k \in Keys : IsFailure(store[k]) /\ k[2] = "baseline"
          /\ \E i, j \in 1..Len(report) :
                /\ report[i].task_id = k[1] /\ report[i].condition = "baseline"
                /\ report[i].n_runs = 1
                /\ report[j].task_id = k[1] /\ report[j].condition = "with-gnapsis"
                /\ report[j].n_runs = 2

\* the valid quality scores of the non-Failure records of a group, in file
\* order
QualitySample(st, task_id, condition) ==
    LET paths == SelectSeq(SortedPaths(st, <<>>), LAMBDA p :
                     /\ p[1] = task_id /\ p[2] = condition
                     /\ ~IsFailure(st[p]) /\ HasValidScore(st[p]))
    IN  [i \in 1..Len(paths) |-> st[paths[i]].quality_score.n]

QualityOverValidScores ==
    \A i \in 1..Len(report) :
        LET sample == QualitySample(store, report[i].task_id, report[i].condition)
        IN  /\ report[i].quality_score_mean = compute_stats(sample).mean
            /\ report[i].quality_score_median = compute_stats(sample).median
            /\ report[i].quality_score_stdev = compute_stats(sample).stdev
            /\ sample = <<>> =>
                  /\ report[i].quality_score_mean = Zero
                  /\ report[i].quality_score_median = Zero
                  /\ report[i].quality_score_stdev = [sqrt |-> Zero]

\* C11: the aggregate phase raises no error on the scores of the store, and
\* the quality statistics of each group are those of the group's scores that
\* are present and >= 0, all 0 when no such score remains.
C11_QualityStatsOverValidScores ==
    args.prog = "analyze" =>
        /\ status # "raised"
        /\ status = "ok" => QualityOverValidScores

\* the part of C11 that the code meets: whenever a report is produced, its
\* quality statistics are those of the valid scores
C11_ReportedStatsOverValidScores ==
    (args.prog = "analyze" /\ status = "ok") => QualityOverValidScores

\* the record holds the keyword coverage of its answer text
HoldsKeywordCoverage(d) ==
    LET task == TaskOf(d.task_id)
        text == Get(d, "result_text", Str(<<>>))
        kh == count_keyword_hits(text.s, task.expected_answer_keywords)
    IN  /\ {"keyword_hits", "keyword_total", "keyword_list"} \subseteq DOMAIN d
        /\ d.keyword_hits = Num(kh[1])
        /\ d.keyword_total = Num(Len(task.expected_answer_keywords))
        /\ d.keyword_list = List([j \in 1..Len(kh[2]) |-> Str(kh[2][j])])

\* C12: at the end of a judge pass, every selected Success record holds
\* keyword_hits, keyword_total and keyword_list equal to the keyword coverage
\* of its answer text, a record with empty answer text included.
C12_KeywordFieldsWritten ==
    (pc = "judge" /\ idx = Len(results)) =>
        \A i \in 1..Len(results) : HoldsKeywordCoverage(store[results[i][1]])

\* the part of C12 that the code meets: the same for the selected records
\* whose answer text is not empty
C12_KeywordFieldsOfAnswers ==
    (pc = "judge" /\ idx = Len(results)) =>
        \A i \in 1..Len(results) :
            Truthy(Get(results[i][2], "result_text", Str(<<>>)))
            => HoldsKeywordCoverage(store[results[i][1]])

----------------------------------------------------------------------------
(* count_keyword_hits on its own, checked under SpecKeywords *)

\* no program is running and none has run
Quiet ==
    /\ combined = <<>>
    /\ pc = "idle"
    /\ status = "none"
    /\ args = NoArgs
    /\ completed = 0
    /\ all_results = <<>>
    /\ results = <<>>
    /\ idx = 0
    /\ trace = <<>>
    /\ last = NoCall
    /\ faults = 0
    /\ report = <<>>
    /\ table = <<>>

\* every program is at rest and the store is empty
AtRest == store = EmptyStore /\ Quiet

Frame ==
    UNCHANGED <<store, combined, pc, status, args, completed, all_results,
                results, idx, trace, last, faults, report, table>>

\* answer texts and keyword lists: letters in both cases, keywords as a task
\* file holds them
TextLetters == {"q", "U", "r", "E"}
Texts == UNION {[1..n -> TextLetters] : n \in 0..MaxTextLen}
KeywordChoices == {<<"Q", "u">>, <<"R", "e">>, <<"x">>}
KeywordLists == UNION {[1..n -> KeywordChoices] : n \in 0..MaxKeywords}

InitKeywords ==
    /\ AtRest
    /\ call \in {[fn |-> "count_keyword_hits", text |-> t, keywords |-> k] :
                    t \in Texts, k \in KeywordLists}
    /\ ret = NoFn

CountKeywordHits ==
    /\ call.fn = "count_keyword_hits"
    /\ ret = NoFn
    /\ ret' = [fn |-> "count_keyword_hits",
               value |-> count_keyword_hits(call.text, call.keywords)]
    /\ UNCHANGED call
    /\ Frame

SpecKeywords == InitKeywords /\ [][CountKeywordHits]_vars

\* the lower-cased keyword occurs in the lower-cased text at some position
Occurs(kw, text) ==
    \E i \in 1..(Len(text) + 1) :
        \A j \in 1..Len(kw) :
            /\ i + j - 1 <= Len(text)
            /\ LowerChar(kw[j]) = LowerChar(text[i + j - 1])

RECURSIVE OccurringKeywords(_, _)
OccurringKeywords(kws, text) ==
    IF kws = <<>>
    THEN <<>>
    ELSE (IF Occurs(Head(kws), text) THEN <<Head(kws)>> ELSE <<>>)
         \o OccurringKeywords(Tail(kws), text)

----------------------------------------------------------------------------
(* Pacing of the run batch, checked under SpecRun *)

\* C14: in a run batch with a positive pacing delay, every cell but the last
\* is followed, after its record is saved, by one delay of that length before
\* the next invocation, whether the cell succeeded or failed; the final cell
\* is followed by none, and a dry run or a batch without delay has none.
C14_DelayBetweenInvocations ==
    pc = "run" =>
        IF args.dry_run \/ args.pause = 0
        THEN \A i \in 1..Len(trace) : trace[i].e # "sleep"
        ELSE /\ Len(trace) = 3 * completed
                             - (IF completed > 0 /\ completed = Total(args)
                                THEN 1 ELSE 0)
             /\ \A i \in 1..completed :
                   /\ trace[3 * i - 2].e = "invoke"
                   /\ trace[3 * i - 1].e = "save"
                   /\ i < Total(args) => trace[3 * i] = Sleep(args.pause)

\* a paced batch of several cells has handled its final cell, one cell failed,
\* and the trace ends with the save of the final cell
C14_Witness ==
    /\ pc = "run" /\ ~args.dry_run /\ args.pause = 3
    /\ completed = Total(args) /\ completed >= 2
    /\ \E k \in Keys : IsFailure(store[k])
    /\ trace[Len(trace)].e = "save"
    /\ trace[3] = Sleep(3)

----------------------------------------------------------------------------
(* The three phases run one after another on one store, from the empty *)
(* store on, for a matrix of one task: checked under SpecPipeline       *)

PipelineRun ==
    /\ BeforeAnalyze
    /\ StartRunWith({{"T1"}, {"T9"}}, {1},
                    {<<"baseline">>, <<"baseline", "with-gnapsis">>},
                    {FALSE}, {0})

PipelineJudge ==
    /\ BeforeAnalyze
    /\ StartJudgeWith({{}, {"T9"}}, BOOLEAN, {FALSE}, JudgePauseChoices)

NextPipeline ==
    \/ PipelineRun \/ RunCell \/ FinishRun
    \/ PipelineJudge \/ JudgeRecord \/ FinishJudge
    \/ Aggregation

SpecPipeline == Init /\ [][NextPipeline]_vars

\* the Success records of the store that a task filter selects
Usable(ids) ==
    {k \in Keys : /\ store[k] # NoFile /\ ~IsFailure(store[k])
                  /\ ids = {} \/ k[1] \in ids}

----------------------------------------------------------------------------
(* load_results of analyze.py on its own, over result files of any shape: *)
(* checked under SpecLoad                                                  *)

\* the two files of the store in this specification
LoadKeys == << <<"T1", "baseline", 1>>, <<"T1", "with-gnapsis", 1>> >>

\* optional fields of a result file: absent, or one of the values
Optional(field, values) == {EmptyMap} \cup {field :> v : v \in values}

\* the shapes of a result file of cell k: no file, a Failure record, or a
\* record with any of the token fields missing, null or present, with or
\* without a total_input_tokens of its own
FileShapes(k) ==
    {NoFile, RunFailure([id |-> k[1]], k[2], k[3], <<"timeout">>)}
    \cup
    { [task_id |-> k[1], condition |-> k[2], run_id |-> k[3]] @@ a @@ b @@ c @@ t :
        a \in Optional("input_tokens", {Num(0), Num(3), Null}),
        b \in Optional("cache_read_input_tokens", {Num(2)}),
        c \in Optional("cache_creation_input_tokens", {Num(1)}),
        t \in Optional("total_input_tokens", {Num(99)}) }

InitLoad ==
    /\ Quiet
    /\ \E f \in FileShapes(LoadKeys[1]), g \in FileShapes(LoadKeys[2]) :
          store = [k \in Keys |-> IF k = LoadKeys[1] THEN f
                                   ELSE IF k = LoadKeys[2] THEN g
                                   ELSE NoFile]
    /\ call = [fn |-> "load_results"]
    /\ ret = NoFn

LoadResults ==
    /\ call.fn = "load_results"
    /\ ret = NoFn
    /\ ret' = [fn |-> "load_results",
               value |-> analyze_load_results(store, combined)]
    /\ UNCHANGED <<store, call>>
    /\ UNCHANGED <<combined, pc, status, args, completed, all_results, results,
                   idx, trace, last, faults, report, table>>

SpecLoad == InitLoad /\ [][LoadResults]_vars

\* the number a token field of a file stands for, 0 when the field is missing
TokenField(d, field) == IF field \in DOMAIN d THEN d[field].n ELSE 0

HasNullToken(d) ==
    \E field \in {"input_tokens", "cache_read_input_tokens",
                  "cache_creation_input_tokens"} :
        field \in DOMAIN d /\ d[field] = Null

\* C16: every record the aggregate phase loads has total_input_tokens equal to
\* input_tokens + cache_read_input_tokens + cache_creation_input_tokens of its
\* file, a missing component counting as 0 and a total_input_tokens held by
\* the file being replaced; its other fields are those of the file.
C16_TotalInputTokensRecomputed ==
    (ret.fn = "load_results" /\ ret.value.kind = "return") =>
        LET loaded == ret.value.result
            files == SelectSeq(LoadKeys, LAMBDA k :
                         store[k] # NoFile /\ ~IsFailure(store[k]))
        IN  /\ Len(loaded) = Len(files)
            /\ \A i \in 1..Len(loaded) :
                  LET d == store[files[i]] IN
                  /\ loaded[i].total_input_tokens
                       = Num(TokenField(d, "input_tokens")
                             + TokenField(d, "cache_read_input_tokens")
                             + TokenField(d, "cache_creation_input_tokens"))
                  /\ DOMAIN loaded[i] = DOMAIN d \cup {"total_input_tokens"}
                  /\ \A f \in DOMAIN d \ {"total_input_tokens"} :
                         loaded[i][f] = d[f]

\* a file that holds total_input_tokens = 99 and lacks cache_read_input_tokens
\* is loaded with the total 3 + 0 + 1
C16_Witness ==
    /\ ret.fn = "load_results" /\ ret.value.kind = "return"
    /\ \E i \in 1..Len(ret.value.result) :
          LET d == store[KeyOf(ret.value.result[i])] IN
          /\ "total_input_tokens" \in DOMAIN d
          /\ d.total_input_tokens = Num(99)
          /\ "cache_read_input_tokens" \notin DOMAIN d
          /\ ret.value.result[i].total_input_tokens = Num(4)

\* when load_results raises instead: exactly when a file that is not a
\* Failure record holds a null token component
C16_LoadRaisesOnNullComponent ==
    ret.fn = "load_results" =>
        (ret.value.kind = "raise"
         <=> \E k \in Keys : /\ store[k] # NoFile /\ ~IsFailure(store[k])
                             /\ HasNullToken(store[k]))

----------------------------------------------------------------------------
(* The comparison table of the aggregate phase, checked under SpecJudge *)

\* C17: in every row of the comparison table (per-task metric rows, total
\* tokens rows, average rows) delta is the value of the second condition minus
\* that of the first (the baseline), the percent change is delta / baseline *
\* 100, and it is exactly 0 when the baseline value is 0; no division by zero
\* occurs.
C17_PercentChange ==
    (args.prog = "analyze" /\ status = "ok") =>
        \A i \in 1..Len(table) :
            LET r == table[i] IN
            /\ r.pct # ZeroDivisionError
            /\ r.delta.num * r.v1.den * r.v2.den
                 = (r.v2.num * r.v1.den - r.v1.num * r.v2.den) * r.delta.den
            /\ IF r.v1.num = 0
               THEN r.pct = Zero
               ELSE r.pct.num * r.v1.num * r.delta.den
                      = 100 * r.delta.num * r.v1.den * r.pct.den
            /\ r.kind = "task" =>
                  /\ r.v1 = FindEntry(report, r.task, "baseline")[r.metric \o "_mean"]
                  /\ r.v2 = FindEntry(report, r.task, "with-gnapsis")[r.metric \o "_mean"]

\* a table with a row of each kind whose baseline value is 0 while the other
\* condition's value is not, and a row that has a percent change other than 0
C17_Witness ==
    /\ args.prog = "analyze" /\ status = "ok"
    /\ \A kind \in {"task", "total", "average"} :
          \E i \in 1..Len(table) :
              /\ table[i].kind = kind
              /\ table[i].v1 = Zero /\ table[i].delta.num # 0
              /\ table[i].pct = Zero
    /\ \E i \in 1..Len(table) : table[i].pct.num # 0

\* C18: in every entry of the report and for every metric of METRICS, stdev is
\* 0 when n_runs is at most 1, and mean equals median when n_runs is 1, also
\* for the quality metric of a single run whose score is the sentinel or
\* absent, where both are 0.
C18_SingleRunStatistics ==
    (args.prog = "analyze" /\ status = "ok") =>
        \A i \in 1..Len(report) :
            report[i].n_runs <= 1 =>
                \A k \in 1..Len(METRICS) :
                    /\ report[i][METRICS[k] \o "_stdev"] = [sqrt |-> Zero]
                    /\ report[i][METRICS[k] \o "_mean"]
                         = report[i][METRICS[k] \o "_median"]

\* a report with the entry of a single run whose score is the sentinel: its
\* quality mean and median are 0 while its token mean is not
C18_Witness ==
    /\ args.prog = "analyze" /\ status = "ok"
    /\ \E i \in 1..Len(report) :
          /\ report[i].n_runs = 1
          /\ \E k \in Keys :
                /\ k[1] = report[i].task_id /\ k[2] = report[i].condition
                /\ store[k] # NoFile /\ ~IsFailure(store[k])
                /\ "quality_score" \in DOMAIN store[k]
                /\ store[k].quality_score = Num(-1)
          /\ report[i].quality_score_mean = Zero
          /\ report[i].quality_score_median = Zero
          /\ report[i].input_tokens_mean # Zero

\* the result text of a grading call whose envelope stage 1 decodes to an
\* object with a text result, NoMatch for any other call
ResultTextOf(proc) ==
    IF proc.timeout \/ (proc.returncode # 0 /\ Strip(proc.stdout) = <<>>)
    THEN NoMatch
    ELSE LET response == JsonLoads(proc.stdout) IN
         IF IsObj(response) /\ IsStr(Get(response.o, "result", Str(<<>>)))
         THEN Get(response.o, "result", Str(<<>>))
         ELSE NoMatch

\* the score stage 2 yields: the score member of the object the text holds
\* once its fences are stripped
Stage2Score(text) ==
    LET parsed == JsonLoads(Strip(RemoveFences(text)))
    IN  IF IsObj(parsed) /\ "score" \in DOMAIN parsed.o
        THEN parsed.o.score
        ELSE NoMatch

\* the score of the first stage of the chain that yields one, -1 if none does
ChainScore(text) ==
    IF Stage2Score(text) # NoMatch THEN Stage2Score(text)
    ELSE IF RegexScore(text) # NoMatch THEN RegexScore(text)
    ELSE Num(-1)

\* C19: score extraction is an ordered chain: the text is parsed as a score
\* object once its fences are stripped; when that yields no score the raw text
\* is searched for the score pattern, whose integer is used with the first 200
\* characters as reasoning; when no stage yields a score, -1 is recorded. The
\* first stage that yields a score decides it.
C19_FirstYieldingStageDecides ==
    (last.prog = "judge" /\ ResultTextOf(last.proc) # NoMatch) =>
        /\ last.out.kind = "return"
        /\ Get(last.out.result, "score", Num(-1))
             = ChainScore(ResultTextOf(last.proc).s)

\* What holds of the chain: a score that stage 2 yields is the one recorded;
\* the pattern is searched only when the stripped text is no JSON document, and
\* then its integer is recorded with the first 200 characters of the raw text;
\* -1 is recorded only when neither of the stages that ran yielded a score.
C19_StagesRunOnlyAfterFailure ==
    (last.prog = "judge" /\ ResultTextOf(last.proc) # NoMatch
       /\ last.out.kind = "return") =>
        LET text == ResultTextOf(last.proc).s
            parsed == JsonLoads(Strip(RemoveFences(text)))
            score == Get(last.out.result, "score", Num(-1))
        IN  /\ Stage2Score(text) # NoMatch => score = Stage2Score(text)
            /\ (parsed = DecodeError /\ RegexScore(text) # NoMatch) =>
                  /\ score = RegexScore(text)
                  /\ last.out.result.reasoning = Str(Slice(text, 200))
            /\ (parsed = DecodeError /\ RegexScore(text) = NoMatch) =>
                  score = Num(-1)
            /\ score = Num(-1) =>
                  /\ Stage2Score(text) = NoMatch
                  /\ parsed = DecodeError => RegexScore(text) = NoMatch
            /\ (parsed # DecodeError /\ Stage2Score(text) = NoMatch) =>
                  score = Num(-1)

----------------------------------------------------------------------------
(* Re-running cells that are already stored, checked under SpecPipeline *)

\* the cell the run batch handles next
NextCellKey == CellKey(CellAt(completed + 1, args))

\* a step of the run batch invokes the agent for the next cell whatever the
\* store holds, and the record that comes back takes the place of the file
\* under its key as a whole, so that no judging field survives
RerunReplaces ==
    (pc = "run" /\ ~args.dry_run /\ completed < Total(args)) =>
        /\ last' # NoCall /\ last'.prog = "run" /\ last'.key = NextCellKey
        /\ last'.out.kind = "return" =>
              /\ store'[NextCellKey] = last'.out.result
              /\ DOMAIN store'[NextCellKey] \cap JudgingFields = {}
              /\ \A k \in Keys \ {NextCellKey} : store'[k] = store[k]
        /\ last'.out.kind = "raise" => store' = store

\* the record the judge pass handles next is a Success record the pass
\* selected, and it holds no quality_score
NextUnscored ==
    /\ pc = "judge" /\ ~args.force /\ ~args.keywords_only
    /\ idx < Len(results)
    /\ "quality_score" \notin DOMAIN store[results[idx + 1][1]]

\* the step makes a grading call for the record the judge pass handles next
GradesNext ==
    /\ last' # NoCall /\ last'.prog = "judge"
    /\ last'.key = results[idx + 1][1]

\* C20: the run phase has no skip logic: a run batch invokes the agent for
\* every cell it comes to whatever the store holds and replaces the record
\* under the key as a whole, a Success record with its judging fields
\* included; the record of a re-run cell has no quality_score, so the next
\* judge pass without force makes a grading call for it.
C20_RerunIsReplacedAndRegraded ==
    [][/\ RerunReplaces
       /\ NextUnscored => GradesNext]_vars

\* the part of C20 that the code meets: the replacement by the run phase, and
\* the grading call for an unscored record whose answer text is not empty
C20_RerunWithAnswerIsRegraded ==
    [][/\ RerunReplaces
       /\ (NextUnscored
           /\ IsStr(Get(results[idx + 1][2], "result_text", Str(<<>>)))
           /\ Get(results[idx + 1][2], "result_text", Str(<<>>)).s # <<>>)
          => GradesNext]_vars

----------------------------------------------------------------------------
(* A judge pass that is terminated from outside, and the passes after it: *)
(* checked under SpecResume                                               *)

\* the process is terminated between two iterations of the loop of main
TerminateBetweenRecords ==
    /\ pc = "judge"
    /\ idx < Len(results)
    /\ Exit("terminated")
    /\ UNCHANGED <<store, combined, last, faults, report, table, call, ret>>

\* the process is terminated during the pacing delay of an iteration: the
\* grading call of the iteration has returned, the write-back has not run
TerminateInDelay ==
    /\ pc = "judge"
    /\ idx < Len(results) - 1
    /\ args.pause > 0
    /\ ~args.keywords_only
    /\ LET path == results[idx + 1][1]
           data == results[idx + 1][2]
           task == TaskOf(data.task_id)
           answer == Get(data, "result_text", Str(<<>>))
       IN  /\ task # Null
           /\ Truthy(answer)
           /\ IsStr(answer)
           /\ \E data1 \in {WithKeywords(data,
                   count_keyword_hits(answer.s, task.expected_answer_keywords),
                   task)} :
              /\ IF ~args.force /\ "quality_score" \in DOMAIN data1
                 THEN /\ ~CompareRaises(data1.quality_score)
                      /\ ~NonNegative(data1.quality_score)
                 ELSE TRUE
              /\ \E proc \in JudgeResponses :
                    /\ proc = JudgeOk \/ faults < MaxFaults
                    /\ faults' = IF proc = JudgeOk THEN faults ELSE faults + 1
                    /\ \E out \in {judge_answer(task, answer.s, args.model, proc)} :
                          /\ out.kind = "return"
                          /\ ~AddRaises(Num(0),
                                        WithScore(data1, out.result).judge_cost_usd)
                          /\ last' = Call("judge", path, proc, out)
    /\ Exit("terminated")
    /\ UNCHANGED <<store, combined, report, table, call, ret>>

NextResume ==
    \/ StartJudge \/ JudgeRecord \/ FinishJudge
    \/ TerminateBetweenRecords \/ TerminateInDelay

SpecResume == InitStore /\ [][NextResume]_vars

\* the score the latest grading call of the pass obtained is in the store,
\* under the key of its record
LatestScoreStored ==
    last # NoCall =>
        /\ last.out.kind = "return"
        /\ "quality_score" \in DOMAIN store[last.key]
        /\ store[last.key].quality_score = Get(last.out.result, "score", Num(-1))

\* C21: the score of a record is written back under its key before the
\* grading of the next record starts, so when a judge pass is terminated
\* between two grading calls every score it has obtained is in the store, and
\* the next pass without force calls the grader for no record left with a
\* valid score and for each record the terminated pass had not reached.
C21_TerminatedPassKeepsScores ==
    [][/\ status' = "terminated" => LatestScoreStored'
       /\ (pc = "judge" /\ ~args.force /\ idx < Len(results)
           /\ HasValidScore(store[results[idx + 1][1]])) => last' = last
       /\ NextUnscored => GradesNext]_vars

\* the part of C21 that the code meets: while the pass runs, between two
\* iterations every score obtained so far is in the store, so a termination
\* between two iterations loses none
C21_StoredBetweenIterations ==
    pc = "judge" => LatestScoreStored

----------------------------------------------------------------------------
(* Pacing of the judge pass, checked under SpecJudge *)

\* the grading calls and the delays of the pass so far, in order
CallsAndDelays(tr) == SelectSeq(tr, LAMBDA ev : ev.e \in {"grade", "sleep"})

\* C22: in a judge pass with a positive pacing delay, one delay lies between
\* every two consecutive grading calls, a record skipped without a grading
\* call takes no delay, and no delay follows the last grading call of the
\* pass, also when only skipped records follow it.
C22_DelayOnlyBetweenGradingCalls ==
    (pc = "judge" /\ idx = Len(results) /\ args.pause > 0) =>
        LET cd == CallsAndDelays(trace)
        IN  /\ \A i \in 1..Len(cd) :
                  IF i % 2 = 1 THEN cd[i].e = "grade"
                               ELSE cd[i] = Sleep(args.pause)
            /\ cd # <<>> => cd[Len(cd)].e = "grade"

\* the part of C22 that the code meets: a delay is taken only right after a
\* grading call, and two grading calls always have a delay between them
C22_DelayFollowsGradingCall ==
    (pc = "judge" /\ args.pause > 0) =>
        LET cd == CallsAndDelays(trace)
        IN  \A i \in 1..Len(cd) :
                IF i % 2 = 1 THEN cd[i].e = "grade"
                             ELSE cd[i] = Sleep(args.pause)

----------------------------------------------------------------------------
(* The measurements of a Success record, checked under SpecRun *)

EnvelopeFields == {"num_turns", "duration_ms", "duration_api_ms", "total_cost_usd"}

UsageFields ==
    {"input_tokens", "output_tokens", "cache_read_input_tokens",
     "cache_creation_input_tokens"}

\* C23: in every Success record the run phase has stored, the usage, cost and
\* timing fields are numbers, never null: a field the envelope of the agent
\* lacks or gives as null is stored as 0.
C23_MeasurementsAreNumbers ==
    \A k \in Keys :
        (store[k] # NoFile /\ ~IsFailure(store[k])) =>
            \A f \in EnvelopeFields \cup UsageFields : store[k][f].t = "num"

\* the part of C23 that the code meets: a field the envelope lacks is stored
\* as 0, and a field it gives is stored as given
C23_AbsentFieldsAreZero ==
    (last # NoCall /\ last.prog = "run" /\ last.out.kind = "return"
       /\ ~IsFailure(last.out.result)) =>
        LET response == JsonLoads(last.proc.stdout).o
            usage == Get(response, "usage", Obj(EmptyMap)).o
        IN  /\ \A f \in EnvelopeFields :
                  last.out.result[f] = Get(response, f, Num(0))
            /\ \A f \in UsageFields :
                  last.out.result[f] = Get(usage, f, Num(0))
            /\ store[last.key] = last.out.result

----------------------------------------------------------------------------
(* The combined collection, checked under SpecRun *)

\* the combined collection after the step holds the records of the cells in
\* keys, in that order, each as the store holds it
CombinedHolds(keys) ==
    /\ Len(combined') = Len(keys)
    /\ \A i \in 1..Len(keys) :
          /\ KeyOf(combined'[i]) = keys[i]
          /\ combined'[i] = store'[keys[i]]

\* load_results of judge.py and of analyze.py give what they give without the
\* combined collection
CombinedNotRead ==
    /\ \A ids \in JudgeTaskFilters :
          judge_load_results(store, combined, ids)
            = judge_load_results(store, <<>>, ids)
    /\ analyze_load_results(store, combined) = analyze_load_results(store, <<>>)

\* C24: when a run batch that is not a dry run ends, the combined collection
\* holds one entry per executed cell, Failure cells included, in execution
\* order, each equal to the per-cell record; it is written once, after the
\* last cell; neither the judge pass nor the aggregate phase reads it.
C24_CombinedIsCopyOfBatch ==
    [][/\ BatchEnds => CombinedHolds(InvokedAtEnd)
       /\ combined' # combined => BatchEnds
       /\ CombinedNotRead']_vars

\* the part of C24 that the code meets: the same for a batch that reaches its
\* end without an exception
C24_CombinedAtNormalEnd ==
    [][/\ (BatchEnds /\ status' = "ok") =>
             /\ CombinedHolds(InvokedAtEnd)
             /\ InvokedAtEnd = ExecutionOrder(args)
       /\ combined' # combined => (BatchEnds /\ status' = "ok")
       /\ CombinedNotRead']_vars

----------------------------------------------------------------------------
(* The average rows of the comparison, checked under SpecJudge *)

\* the tasks with an entry under both conditions: those with per-task rows
PairedTasks(rep) ==
    SelectSeq(SortedTaskIds, LAMBDA t :
        /\ FindEntry(rep, t, "baseline") # Null
        /\ FindEntry(rep, t, "with-gnapsis") # Null)

\* the mean over the paired tasks of the group means of a metric
PairedMean(rep, metric, condition) ==
    LET ts == PairedTasks(rep)
    IN  RatMean([i \in 1..Len(ts) |->
                    FindEntry(rep, ts[i], condition)[metric \o "_mean"]])

AveragesArePaired ==
    \A i \in 1..Len(table) :
        table[i].kind = "average" =>
            /\ PairedTasks(report) # <<>>
            /\ table[i].v1 = PairedMean(report, table[i].metric, "baseline")
            /\ table[i].v2 = PairedMean(report, table[i].metric, "with-gnapsis")

\* C25: in the comparison of two conditions, both averages of the average row
\* of a metric are means of per-task group means over the same tasks, those
\* with an entry under both conditions; a task with usable records under one
\* condition only contributes to neither.
C25_AveragesOverPairedTasks ==
    (args.prog = "analyze" /\ status = "ok") => AveragesArePaired

\* the part of C25 that the code meets: the same when every task of the
\* report has an entry under both conditions
C25_AveragesOfCompleteReport ==
    (args.prog = "analyze" /\ status = "ok"
       /\ \A i \in 1..Len(report) :
              \E j \in 1..Len(PairedTasks(report)) :
                  PairedTasks(report)[j] = report[i].task_id)
    => AveragesArePaired

----------------------------------------------------------------------------
(* Stability of a valid score, checked under SpecJudge *)

ScoreFields == {"quality_score", "quality_reasoning", "judge_cost_usd"}

\* the step leaves the score fields of the record under k as they are
ScoreFieldsKept(k) ==
    /\ store'[k] # NoFile
    /\ DOMAIN store'[k] \cap ScoreFields = DOMAIN store[k] \cap ScoreFields
    /\ \A f \in DOMAIN store[k] \cap ScoreFields : store'[k][f] = store[k][f]

\* C26: over judge passes without force, with no run batch in between, a valid
\* quality score is stable: once a record holds quality_score >= 0, no step
\* changes its quality_score, quality_reasoning or judge_cost_usd, and none
\* puts -1 in its place, unless it is a step of a forced pass.
C26_ValidScoreStable ==
    [][\A k \in Keys :
          HasValidScore(store[k]) =>
              \/ ScoreFieldsKept(k)
              \/ pc = "judge" /\ args.force /\ ~args.keywords_only]_vars

\* a pass without force that only counts keywords has written back a record
\* that holds a valid score, while another record holds the sentinel
C26_Witness ==
    /\ pc = "judge" /\ ~args.force /\ args.keywords_only
    /\ \E i \in 1..Len(trace) :
          /\ trace[i].e = "write"
          /\ HasValidScore(store[trace[i].key])
          /\ store[trace[i].key].quality_reasoning = Str(<<"good">>)
    /\ \E k \in Keys : /\ store[k] # NoFile
                       /\ "quality_score" \in DOMAIN store[k]
                       /\ store[k].quality_score = Num(-1)

----------------------------------------------------------------------------
(* Judge passes without force repeated for ever, checked under SpecRepeat *)

\* a judge pass over every task, without force and with grading
RepeatPass == StartJudgeWith({{}}, {FALSE}, {FALSE}, JudgePauseChoices)

NextRepeat == RepeatPass \/ JudgeRecord \/ FinishJudge

\* the passes go on: a pass that can take a step takes one, and a new pass
\* starts when none runs; the grader fails at most MaxFaults times
SpecRepeat == InitStore /\ [][NextRepeat]_vars /\ WF_vars(NextRepeat)

\* the record the pass handles next is a selected Success record that lacks a
\* valid score
NextLacksValidScore ==
    /\ pc = "judge" /\ ~args.force /\ ~args.keywords_only
    /\ idx < Len(results)
    /\ ~HasValidScore(store[results[idx + 1][1]])

\* every Success record of the store holds a valid score
AllValid ==
    \A k \in Keys : (store[k] # NoFile /\ ~IsFailure(store[k])) => HasValidScore(store[k])

\* the step makes no grading call
NoGradingCall == last' = last \/ last' = NoCall

\* C27: a judge pass without force and with grading makes a grading call for
\* each selected Success record that lacks a valid score (no quality_score, or
\* -1); hence, under repeated passes without force in which the grader comes
\* to return a parsable score for each record, every Success record of the
\* store comes to hold a valid score, and from then on the passes make no
\* grading call.
C27_EveryRecordComesToAValidScore ==
    /\ [][NextLacksValidScore => GradesNext]_vars
    /\ <>[]AllValid
    /\ [][AllValid => NoGradingCall]_vars

\* a Success record that no pass can grade: its answer is empty or null, or it
\* holds a quality_score that is not a number
Ungradable(d) ==
    /\ d # NoFile /\ ~IsFailure(d)
    /\ \/ ~IsStr(Get(d, "result_text", Str(<<>>)))
       \/ Get(d, "result_text", Str(<<>>)).s = <<>>
       \/ "quality_score" \in DOMAIN d /\ d.quality_score.t # "num"

\* the part of C27 that the code meets: a record that lacks a valid score and
\* can be graded gets a grading call, whose score the step stores unless it
\* raises; a pass stops with an exception, the store as it was, at a record
\* whose quality_score is not a number; and the passes make no grading call
\* once every Success record holds a valid score
C27_GradableRecordIsGraded ==
    [][/\ (NextLacksValidScore /\ ~Ungradable(store[results[idx + 1][1]])) =>
             /\ GradesNext
             /\ status' # "raised" =>
                   store'[last'.key].quality_score
                     = Get(last'.out.result, "score", Num(-1))
       /\ (NextLacksValidScore
           /\ IsStr(Get(store[results[idx + 1][1]], "result_text", Str(<<>>)))
           /\ Truthy(Get(store[results[idx + 1][1]], "result_text", Str(<<>>)))
           /\ "quality_score" \in DOMAIN store[results[idx + 1][1]]
           /\ store[results[idx + 1][1]].quality_score.t # "num") =>
             /\ status' = "raised"
             /\ store' = store
             /\ NoGradingCall
       /\ AllValid => NoGradingCall]_vars

====
